---- MODULE Spec2Model ----
(***************************************************************************)
(* Model of the ThingSet message codec (src/thingset/__init__.py).         *)
(*                                                                         *)
(* A message is a sequence of bytes (naturals below 256).  A Python value  *)
(* is a record with one field, named after its type:                       *)
(*   int   : an integer              str, bytes : the sequence of bytes    *)
(*   bool  : a BOOLEAN               none : 0                              *)
(*   list  : a sequence of values    dict : a sequence of <<key, value>>   *)
(*   name  : a string used as the key of a domain payload                  *)
(*   float : [c, s, m, e], a double:                                       *)
(*        c = "fin" : (-1)^s * m * 2^e, m odd (or m = 0 and e = 0)         *)
(*        c = "dec" : the double nearest to (-1)^s * m / 10^e, where       *)
(*                    m / 10^e is in lowest decimal form and not dyadic    *)
(*        c = "inf" : (-1)^s * infinity      c = "nan" : not a number      *)
(* A Python dict is the sequence of its <<key, value>> items in insertion  *)
(* order, with pairwise distinct keys.                                     *)
(***************************************************************************)
EXTENDS Integers, Sequences, FiniteSets, TLC

VARIABLES op, arg_msg, arg_message, arg_mapping, arg_precision, ret, cbor_in

vars == <<op, arg_msg, arg_message, arg_mapping, arg_precision, ret, cbor_in>>

(***************************************************************************)
(* Bounds of the model.                                                    *)
(***************************************************************************)
MaxLen == 2

MaxMapLen == 2

MaxPrecision == 3

(***************************************************************************)
(* Results of a call: a returned value or a raised exception.              *)
(***************************************************************************)
Ok(v) == [ok |-> TRUE, val |-> v]

Raise(e, a) == [ok |-> FALSE, exc |-> e, arg |-> a]

None == [none |-> 0]

IntV(n) == [int |-> n]

StrV(s) == [str |-> s]

BytesV(s) == [bytes |-> s]

BoolV(b) == [bool |-> b]

FloatV(f) == [float |-> f]

ListV(s) == [list |-> s]

DictV(s) == [dict |-> s]

NameV(s) == [name |-> s]

\* type(x)
TypeOf(x) == CHOOSE t \in DOMAIN x : TRUE

IsFloat(x) == TypeOf(x) = "float"

(***************************************************************************)
(* Arithmetic helpers.                                                     *)
(***************************************************************************)
RECURSIVE Pow(_, _)
Pow(b, k) == IF k = 0 THEN 1 ELSE b * Pow(b, k - 1)

RECURSIVE BitLen(_)
BitLen(m) == IF m = 0 THEN 0 ELSE 1 + BitLen(m \div 2)

\* m / 2^k rounded to the nearest integer, ties to even (m < 2^31).
RoundHalfEven(m, k) ==
  IF k > 30 THEN 0
  ELSE LET d == Pow(2, k)
           q == m \div d
           r == m % d
       IN IF r > d - r \/ (r = d - r /\ q % 2 = 1) THEN q + 1 ELSE q

RECURSIVE StripTwos(_, _)
StripTwos(m, e) == IF m % 2 = 0 THEN StripTwos(m \div 2, e + 1) ELSE <<m, e>>

RECURSIVE StripTens(_, _)
StripTens(N, n) ==
  IF n > 0 /\ N % 10 = 0 THEN StripTens(N \div 10, n - 1) ELSE <<N, n>>

(***************************************************************************)
(* Doubles.                                                                *)
(***************************************************************************)
Zero(s) == [c |-> "fin", s |-> s, m |-> 0, e |-> 0]

Inf(s) == [c |-> "inf", s |-> s, m |-> 0, e |-> 0]

NaN == [c |-> "nan", s |-> 0, m |-> 0, e |-> 0]

\* the double (-1)^s * m * 2^e
Fin(s, m, e) ==
  IF m = 0 THEN Zero(s)
  ELSE LET p == StripTwos(m, e)
       IN [c |-> "fin", s |-> s, m |-> p[1], e |-> p[2]]

\* the double nearest to (-1)^s * N / 10^n
Decimal(s, N, n) ==
  LET p == StripTens(N, n)
      N1 == p[1]
      n1 == p[2]
  IN IF N1 = 0 THEN Zero(s)
     ELSE IF n1 = 0 THEN Fin(s, N1, 0)
     ELSE IF N1 % Pow(5, n1) = 0 THEN Fin(s, N1 \div Pow(5, n1), 0 - n1)
     ELSE [c |-> "dec", s |-> s, m |-> N1, e |-> n1]

\* the four big-endian bytes of a float32 with the given fields
Float32Bytes(s, bexp, frac) ==
  << s * 128 + (bexp \div 2),
     (bexp % 2) * 128 + (frac \div 65536),
     (frac \div 256) % 256,
     frac % 256 >>

\* scale q + r/D by powers of two until the integer part has 24 bits
RECURSIVE Normalize24(_, _, _, _)
Normalize24(q, r, D, k) ==
  IF q >= 8388608 THEN <<q, r, k>>
  ELSE Normalize24(2 * q + ((2 * r) \div D), (2 * r) % D, D, k + 1)

\* struct.pack(">f", x): the float32 nearest to the double x (ties to even),
\* OverflowError when a finite x rounds to an infinity.
struct_pack_f(x) ==
  CASE x.c = "nan" -> Ok(<<127, 192, 0, 0>>)
    [] x.c = "inf" -> Ok(Float32Bytes(x.s, 255, 0))
    [] x.c = "fin" /\ x.m = 0 -> Ok(Float32Bytes(x.s, 0, 0))
    [] x.c = "fin" /\ x.m # 0 ->
         LET L == BitLen(x.m)
             E == x.e + L - 1
         IN IF E >= -126
            THEN LET sig0 == IF L <= 24 THEN x.m * Pow(2, 24 - L)
                             ELSE RoundHalfEven(x.m, L - 24)
                     carry == IF sig0 = 16777216 THEN 1 ELSE 0
                     sig == IF carry = 1 THEN 8388608 ELSE sig0
                 IN IF E + carry > 127
                    THEN Raise("OverflowError", "float too large to pack with f format")
                    ELSE Ok(Float32Bytes(x.s, E + carry + 127, sig - 8388608))
            ELSE LET sh == x.e + 149
                     frac == IF sh >= 0 THEN x.m * Pow(2, sh)
                             ELSE RoundHalfEven(x.m, 0 - sh)
                 IN IF frac = 8388608 THEN Ok(Float32Bytes(x.s, 1, 0))
                    ELSE Ok(Float32Bytes(x.s, 0, frac))
    [] x.c = "dec" /\ x.m < 16777216 ->
         LET D == Pow(10, x.e)
             nrm == Normalize24(x.m \div D, x.m % D, D, 0)
             q == nrm[1]
             r == nrm[2]
             up == r > D - r \/ (r = D - r /\ q % 2 = 1)
             sig0 == IF up THEN q + 1 ELSE q
             carry == IF sig0 = 16777216 THEN 1 ELSE 0
             sig == IF carry = 1 THEN 8388608 ELSE sig0
             E == 23 - nrm[3] + carry
         IN CASE E >= -126 -> Ok(Float32Bytes(x.s, E + 127, sig - 8388608))

\* struct.unpack(">f", b): the double equal to the float32 with bytes b
struct_unpack_f(b) ==
  LET s == b[1] \div 128
      bexp == (b[1] % 128) * 2 + (b[2] \div 128)
      frac == (b[2] % 128) * 65536 + b[3] * 256 + b[4]
  IN IF bexp = 255 THEN (IF frac = 0 THEN Inf(s) ELSE NaN)
     ELSE IF bexp = 0 THEN Fin(s, frac, -149)
     ELSE Fin(s, 8388608 + frac, bexp - 150)

\* the decimal digits of A + R/2^k shifted left n places: <<integer, R'>>
RECURSIVE ShiftDecimal(_, _, _, _)
ShiftDecimal(A, R, d, n) ==
  IF n = 0 THEN <<A, R>>
  ELSE ShiftDecimal(A * 10 + ((R * 10) \div d), (R * 10) % d, d, n - 1)

\* round(x, ndigits) of a float: the double nearest to the decimal with
\* ndigits digits nearest to x (ties to even); x is a float32 value.
round(x, ndigits) ==
  CASE x.c \in {"inf", "nan"} -> x
    [] x.c = "fin" /\ x.e >= 0 -> x
    [] x.c = "fin" /\ x.e < 0 ->
         LET E == x.e + BitLen(x.m) - 1
         IN IF E <= -33 /\ ndigits <= 9 THEN Zero(x.s)
            ELSE LET d == Pow(2, 0 - x.e)
                     sh == ShiftDecimal(x.m \div d, x.m % d, d, ndigits)
                     A == sh[1]
                     R == sh[2]
                     up == R > d - R \/ (R = d - R /\ A % 2 = 1)
                 IN Decimal(x.s, IF up THEN A + 1 ELSE A, ndigits)


(***************************************************************************)
(* Python dicts as insertion-ordered sequences of <<key, value>> items.    *)
(***************************************************************************)
KeyEq(a, b) == a = b

DictHas(d, k) == \E i \in 1..Len(d) : KeyEq(d[i][1], k)

DictGet(d, k) == d[CHOOSE i \in 1..Len(d) : KeyEq(d[i][1], k)][2]

\* d[k] = v: an existing key keeps its position and takes the new value
DictSet(d, k, v) ==
  IF DictHas(d, k)
  THEN [i \in 1..Len(d) |-> IF KeyEq(d[i][1], k) THEN <<d[i][1], v>> ELSE d[i]]
  ELSE Append(d, <<k, v>>)

(***************************************************************************)
(* The CBOR library (cbor2), as far as the codec uses it.                  *)
(***************************************************************************)
RECURSIVE BytesBE(_, _)
BytesBE(n, w) == IF w = 0 THEN <<>> ELSE Append(BytesBE(n \div 256, w - 1), n % 256)

RECURSIVE IntBE(_)
IntBE(b) == IF Len(b) = 0 THEN 0 ELSE IntBE(SubSeq(b, 1, Len(b) - 1)) * 256 + b[Len(b)]

\* cbor2.encoder.encode_length (lengths below 2^31)
encode_length(major_tag, length) ==
  IF length < 24 THEN <<major_tag + length>>
  ELSE IF length < 256 THEN <<major_tag + 24, length>>
  ELSE IF length < 65536 THEN <<major_tag + 25>> \o BytesBE(length, 2)
  ELSE <<major_tag + 26>> \o BytesBE(length, 4)

\* CBOREncoder.encode of a scalar other than a float
CBOREncoder_encode(value) ==
  CASE TypeOf(value) = "int" /\ value.int >= 0 -> Ok(encode_length(0, value.int))
    [] TypeOf(value) = "int" /\ value.int < 0 ->
         Ok(encode_length(32, 0 - value.int - 1))
    [] TypeOf(value) = "bytes" -> Ok(encode_length(64, Len(value.bytes)) \o value.bytes)
    [] TypeOf(value) = "str" -> Ok(encode_length(96, Len(value.str)) \o value.str)
    [] TypeOf(value) = "bool" -> Ok(IF value.bool THEN <<245>> ELSE <<244>>)
    [] TypeOf(value) = "none" -> Ok(<<246>>)

DecodeError == [ok |-> FALSE, val |-> None, rest |-> <<>>]

Item(v, rest) == [ok |-> TRUE, val |-> v, rest |-> rest]

Drop(b, n) == SubSeq(b, n + 1, Len(b))

\* the argument of an initial byte: additional information 0..26
decode_length(info, b) ==
  CASE info < 24 -> Item(info, b)
    [] info \in {24, 25, 26} ->
         LET w == Pow(2, info - 24)
         IN IF Len(b) < w THEN DecodeError
            ELSE Item(IntBE(SubSeq(b, 1, w)), Drop(b, w))
    [] info \in {28, 29, 30} -> DecodeError

RECURSIVE cbor_decode(_)
RECURSIVE decode_array(_, _, _)
RECURSIVE decode_map(_, _, _)

\* CBORDecoder.decode: one item from the head of b, and the bytes left over
cbor_decode(b) ==
  IF Len(b) = 0 THEN DecodeError
  ELSE LET major == b[1] \div 32
           info == b[1] % 32
       IN CASE major \in 0..5 ->
                 LET h == decode_length(info, Tail(b))
                 IN IF ~h.ok THEN DecodeError
                    ELSE (CASE major = 0 -> Item(IntV(h.val), h.rest)
                           [] major = 1 -> Item(IntV(0 - 1 - h.val), h.rest)
                           [] major \in {2, 3} ->
                                IF Len(h.rest) < h.val THEN DecodeError
                                ELSE Item(IF major = 2
                                          THEN BytesV(SubSeq(h.rest, 1, h.val))
                                          ELSE StrV(SubSeq(h.rest, 1, h.val)),
                                          Drop(h.rest, h.val))
                           [] major = 4 -> decode_array(h.rest, h.val, <<>>)
                           [] major = 5 -> decode_map(h.rest, h.val, <<>>))
            [] major = 7 /\ info = 20 -> Item(BoolV(FALSE), Tail(b))
            [] major = 7 /\ info = 21 -> Item(BoolV(TRUE), Tail(b))
            [] major = 7 /\ info = 22 -> Item(None, Tail(b))
            [] major = 7 /\ info = 26 ->
                 IF Len(b) < 5 THEN DecodeError
                 ELSE Item(FloatV(struct_unpack_f(SubSeq(b, 2, 5))), Drop(b, 5))
            [] major = 7 /\ info \in {28, 29, 30} -> DecodeError

decode_array(b, n, acc) ==
  IF n = 0 THEN Item(ListV(acc), b)
  ELSE LET x == cbor_decode(b)
       IN IF ~x.ok THEN DecodeError
          ELSE decode_array(x.rest, n - 1, Append(acc, x.val))

decode_map(b, n, acc) ==
  IF n = 0 THEN Item(DictV(acc), b)
  ELSE LET k == cbor_decode(b)
       IN IF ~k.ok THEN DecodeError
          ELSE LET x == cbor_decode(k.rest)
               IN IF ~x.ok THEN DecodeError
                  ELSE decode_map(x.rest, n - 1, DictSet(acc, k.val, x.val))

\* cbor2.loads: the first item of the stream
cbor2_loads(b) ==
  LET x == cbor_decode(b)
  IN IF x.ok THEN Ok(x.val) ELSE Raise("CBORDecodeError", "premature end of stream")

(***************************************************************************)
(* The codec.                                                              *)
(***************************************************************************)
ThingsetFunction ==
  << [name |-> "READ", value |-> 1],
     [name |-> "WRITE", value |-> 2],
     [name |-> "LIST", value |-> 3],
     [name |-> "GET_DATA_OBJECT_NAME", value |-> 4],
     [name |-> "PUBLICATION_REQUEST", value |-> 5],
     [name |-> "AUTHENTICATION", value |-> 6],
     [name |-> "PRELIMINARY", value |-> 7],
     [name |-> "PUBLICATION_MESSAGE", value |-> 31] >>

Message(function, payload) == [function |-> function, payload |-> payload]

RECURSIVE ScanFunctions(_, _)
ScanFunctions(i, function_byte) ==
  IF i > Len(ThingsetFunction)
  THEN Raise("ParsingError", <<"function not implemented", function_byte>>)
  ELSE IF ThingsetFunction[i].value = function_byte THEN Ok(ThingsetFunction[i])
  ELSE ScanFunctions(i + 1, function_byte)

\* Variant: a byte that matches no variant is taken for the first variant.
parse_thingset_msg_function_default(msg) ==
  IF Len(msg) = 0 THEN Raise("IndexError", "index out of range")
  ELSE LET found == ScanFunctions(1, msg[1])
       IN IF found.ok THEN found ELSE Ok(ThingsetFunction[1])

parse_thingset_msg_function(msg) ==
  IF Len(msg) = 0 THEN Raise("IndexError", "index out of range")
  ELSE ScanFunctions(1, msg[1])

\* msg[1:]
cbor_msg(msg) == SubSeq(msg, 2, Len(msg))

\* Variant: the precision is tested for truth, so that 0 counts as absent.
RoundValue_truthy(value, floats_precision) ==
  IF floats_precision # None /\ floats_precision # IntV(0) /\ IsFloat(value)
  THEN FloatV(round(value.float, floats_precision.int))
  ELSE value

RoundValue(value, floats_precision) ==
  IF floats_precision # None /\ IsFloat(value)
  THEN FloatV(round(value.float, floats_precision.int))
  ELSE value

RECURSIVE RoundItems(_, _, _, _)
RoundItems(raw_payload, i, floats_precision, payload) ==
  IF i > Len(raw_payload) THEN payload
  ELSE RoundItems(raw_payload, i + 1, floats_precision,
                  DictSet(payload, raw_payload[i][1],
                          RoundValue(raw_payload[i][2], floats_precision)))

\* Variant: the type of the decoded value is not checked.
parse_thingset_msg_payload_unchecked(msg, floats_precision) ==
  LET raw_payload == cbor2_loads(cbor_msg(msg))
  IN IF ~raw_payload.ok THEN raw_payload
     ELSE IF TypeOf(raw_payload.val) # "dict"
     THEN Raise("AttributeError", <<"object has no attribute 'items'",
                                   TypeOf(raw_payload.val)>>)
     ELSE Ok(RoundItems(raw_payload.val.dict, 1, floats_precision, <<>>))

parse_thingset_msg_payload(msg, floats_precision) ==
  LET raw_payload == cbor2_loads(cbor_msg(msg))
  IN IF ~raw_payload.ok THEN raw_payload
     ELSE IF TypeOf(raw_payload.val) # "dict"
     THEN Raise("ParsingError", <<"payload should be a dict", TypeOf(raw_payload.val)>>)
     ELSE Ok(RoundItems(raw_payload.val.dict, 1, floats_precision, <<>>))

\* Variant: the payload is parsed before the function byte is classified.
DecodeSteps_payload_first(msg, floats_precision) ==
  LET payload == parse_thingset_msg_payload(msg, floats_precision)
      function == parse_thingset_msg_function(msg)
  IN [ret |-> IF ~payload.ok THEN payload
              ELSE IF ~function.ok THEN function ELSE payload,
      cbor_in |-> [called |-> TRUE, data |-> cbor_msg(msg)]]

\* the two steps of a decode, in order: [ret, cbor_in]
DecodeSteps(msg, floats_precision) ==
  LET function == parse_thingset_msg_function(msg)
  IN IF ~function.ok
     THEN [ret |-> function, cbor_in |-> [called |-> FALSE, data |-> <<>>]]
     ELSE [ret |-> parse_thingset_msg_payload(msg, floats_precision),
           cbor_in |-> [called |-> TRUE, data |-> cbor_msg(msg)]]

decode_thingset_message(msg, floats_precision) ==
  LET function == parse_thingset_msg_function(msg)
      payload == DecodeSteps(msg, floats_precision).ret
  IN IF ~payload.ok THEN payload
     ELSE Ok(Message(function.val, payload.val))

\* Variant: every key of the mapping is looked up, present or not.
RECURSIVE TranslateItems_get(_, _, _, _)
TranslateItems_get(payload_key_mapping, i, raw_payload, domain_payload) ==
  IF i > Len(payload_key_mapping) THEN domain_payload
  ELSE LET raw_key == payload_key_mapping[i][1]
           domain_key == payload_key_mapping[i][2]
       IN TranslateItems_get(payload_key_mapping, i + 1, raw_payload,
            DictSet(domain_payload, domain_key,
                    IF DictHas(raw_payload, raw_key)
                    THEN DictGet(raw_payload, raw_key) ELSE None))

RECURSIVE TranslateItems(_, _, _, _)
TranslateItems(payload_key_mapping, i, raw_payload, domain_payload) ==
  IF i > Len(payload_key_mapping) THEN domain_payload
  ELSE LET raw_key == payload_key_mapping[i][1]
           domain_key == payload_key_mapping[i][2]
       IN TranslateItems(payload_key_mapping, i + 1, raw_payload,
            IF DictHas(raw_payload, raw_key)
            THEN DictSet(domain_payload, domain_key, DictGet(raw_payload, raw_key))
            ELSE domain_payload)

decode_thingset_message_with_domain(msg, payload_key_mapping, floats_precision) ==
  LET function == parse_thingset_msg_function(msg)
      raw_payload == DecodeSteps(msg, floats_precision).ret
  IN IF ~raw_payload.ok THEN raw_payload
     ELSE Ok(Message(function.val,
                     TranslateItems(payload_key_mapping, 1, raw_payload.val, <<>>)))

\* Variant: the float32 is written in little-endian byte order.
encode_float_little_endian(value) ==
  LET packed == struct_pack_f(value)
  IN IF packed.ok
     THEN Ok(<<250, packed.val[4], packed.val[3], packed.val[2], packed.val[1]>>)
     ELSE packed

encode_float_using_float32(value) ==
  LET packed == struct_pack_f(value)
  IN IF packed.ok THEN Ok(<<250>> \o packed.val) ELSE packed

EncodeValue(value) ==
  IF IsFloat(value) THEN encode_float_using_float32(value.float)
  ELSE CBOREncoder_encode(value)

RECURSIVE EncodeItems(_, _, _)
EncodeItems(payload, i, result) ==
  IF i > Len(payload) THEN Ok(result)
  ELSE LET key == CBOREncoder_encode(payload[i][1])
           value == EncodeValue(payload[i][2])
       IN IF ~key.ok THEN key
          ELSE IF ~value.ok THEN value
          ELSE EncodeItems(payload, i + 1, result \o key.val \o value.val)

encode_thingset_message(msg) ==
  EncodeItems(msg.payload, 1,
              <<msg.function.value>> \o encode_length(160, Len(msg.payload)))

RECURSIVE FlipMapping(_, _, _)
FlipMapping(payload_key_mapping, i, flipped) ==
  IF i > Len(payload_key_mapping) THEN flipped
  ELSE FlipMapping(payload_key_mapping, i + 1,
                   DictSet(flipped, payload_key_mapping[i][2], payload_key_mapping[i][1]))

\* Variant: a domain key without a raw key is left out.
RECURSIVE RawItems_skip_unmapped(_, _, _, _)
RawItems_skip_unmapped(payload, i, flipped_domain_mapping, payload_raw) ==
  IF i > Len(payload) THEN Ok(payload_raw)
  ELSE IF ~DictHas(flipped_domain_mapping, payload[i][1])
  THEN RawItems_skip_unmapped(payload, i + 1, flipped_domain_mapping, payload_raw)
  ELSE RawItems_skip_unmapped(payload, i + 1, flipped_domain_mapping,
         DictSet(payload_raw, DictGet(flipped_domain_mapping, payload[i][1]),
                 payload[i][2]))

RECURSIVE RawItems(_, _, _, _)
RawItems(payload, i, flipped_domain_mapping, payload_raw) ==
  IF i > Len(payload) THEN Ok(payload_raw)
  ELSE IF ~DictHas(flipped_domain_mapping, payload[i][1])
  THEN Raise("KeyError", payload[i][1])
  ELSE RawItems(payload, i + 1, flipped_domain_mapping,
                DictSet(payload_raw, DictGet(flipped_domain_mapping, payload[i][1]),
                        payload[i][2]))

\* Variant: the raw payload is built in the order of the mapping.
encode_thingset_message_with_domain_mapping_order(msg, payload_key_mapping) ==
  LET named == [i \in 1..Len(msg.payload) |->
                  <<msg.payload[i][1], msg.payload[i][2]>>]
      missing == {msg.payload[i][1] : i \in 1..Len(msg.payload)}
                   \ {payload_key_mapping[i][2] :
                                        i \in 1..Len(payload_key_mapping)}
  IN IF missing # {} THEN Raise("KeyError", CHOOSE k \in missing : TRUE)
     ELSE encode_thingset_message(
            Message(msg.function,
                    TranslateItems([i \in 1..Len(payload_key_mapping) |->
                                      <<payload_key_mapping[i][2],
                                        payload_key_mapping[i][1]>>],
                                   1, named, <<>>)))

encode_thingset_message_with_domain(msg, payload_key_mapping) ==
  LET flipped_domain_mapping == FlipMapping(payload_key_mapping, 1, <<>>)
      payload_raw == RawItems(msg.payload, 1, flipped_domain_mapping, <<>>)
  IN IF ~payload_raw.ok THEN payload_raw
     ELSE encode_thingset_message(Message(msg.function, payload_raw.val))


(***************************************************************************)
(* Inputs of the calls.                                                    *)
(***************************************************************************)
Functions == {ThingsetFunction[i] : i \in 1..Len(ThingsetFunction)}

PUBLICATION_MESSAGE == ThingsetFunction[8]

\* 15.2 rounded to float32, bits 0x41733333
F32_15_2 == Fin(0, 15938355, -20)

\* the largest finite float32
FLT_MAX == Fin(0, 16777215, 104)

RawKeys == {IntV(1), IntV(78), IntV(300)}

RawValues ==
  { IntV(82), IntV(1539335128), IntV(-500), StrV(<<104, 105>>), BoolV(TRUE),
    FloatV(Fin(0, 123, 0)), FloatV(Decimal(0, 152, 1)), FloatV(F32_15_2),
    FloatV(Zero(1)), FloatV(Inf(0)), FloatV(NaN), FloatV(FLT_MAX),
    FloatV(Fin(0, 33554433, 0)), FloatV(Fin(1, 1, -150)),
    FloatV(Fin(0, 1, 130)), FloatV(Fin(0, 33554431, 103)) }

\* the domain keys a mapping may name, and all those a payload may use
MappedNames == {NameV("timestamp"), NameV("SOC")}

DomainKeys == MappedNames \cup {NameV("eOutputTotal_Wh")}

DomainValues ==
  { IntV(1539335128), FloatV(Decimal(0, 152, 1)), FloatV(Fin(0, 1, 130)), None }

\* the dicts of exactly n items with keys in K and values in V
RECURSIVE DictsOfLen(_, _, _)
DictsOfLen(K, V, n) ==
  IF n = 0 THEN {<<>>}
  ELSE UNION { { Append(d, <<k, v>>) :
                   k \in {y \in K : ~DictHas(d, y)}, v \in V } :
               d \in DictsOfLen(K, V, n - 1) }

Dicts(K, V, n) == UNION { DictsOfLen(K, V, i) : i \in 0..n }

THINGSET_TEST_MSG_PAYLOAD_RAW ==
  << <<IntV(1), IntV(1539335128)>>, <<IntV(7), FloatV(Fin(0, 123, 0))>>,
     <<IntV(8), FloatV(Decimal(0, 152, 1))>>, <<IntV(9), IntV(82)>>,
     <<IntV(78), IntV(854)>> >>

THINGSET_SIMPLE_MESSAGE ==
  << 31, 165, 1, 26, 91, 192, 99, 216, 7, 250, 66, 246, 0, 0,
     8, 250, 65, 115, 51, 51, 9, 24, 82, 24, 78, 25, 3, 86 >>

RawPayloads == Dicts(RawKeys, RawValues, MaxLen) \cup {THINGSET_TEST_MSG_PAYLOAD_RAW}

DomainPayloads == Dicts(DomainKeys, DomainValues, MaxLen)

\* payload_key_mapping: raw key -> domain key, not necessarily injective
Mappings == Dicts(RawKeys, MappedNames, MaxMapLen)

Precisions == {None} \cup {IntV(n) : n \in 0..MaxPrecision}

\* CBOR items as the reference firmware writes them: <<key bytes, value bytes>>
\* with keys and integers of minimal width and floats as float32
MappedWirePairs ==
  { <<<<1>>, <<26, 91, 192, 99, 216>>>>,       \* 1: 1539335128
    <<<<1>>, <<250, 63, 192, 0, 0>>>>,         \* 1: 1.5
    <<<<24, 78>>, <<250, 65, 115, 51, 51>>>>,  \* 78: 15.2f
    <<<<25, 1, 44>>, <<57, 1, 243>>>>,         \* 300: -500
    <<<<7>>, <<250, 127, 128, 0, 0>>>> }       \* 7: inf

ReferencePairs ==
  MappedWirePairs \cup
  { <<<<24, 78>>, <<25, 3, 86>>>>,             \* 78: 854
    <<<<25, 1, 44>>, <<250, 62, 0, 0, 0>>>>,   \* 300: 0.125
    <<<<8>>, <<250, 128, 0, 0, 1>>>>,          \* 8: -(smallest subnormal)
    <<<<9>>, <<98, 104, 105>>>>,               \* 9: "hi"
    <<<<10>>, <<245>>>>,                       \* 10: True
    <<<<12>>, <<250, 127, 192, 0, 0>>>> }      \* 12: nan

\* all the items the messages of the model are made of
WirePairs ==
  ReferencePairs \cup
  { <<<<11>>, <<130, 1, 250, 63, 192, 0, 0>>>>,\* 11: [1, 1.5]
    <<<<24, 1>>, <<24, 82>>>> }                \* 1 (not of minimal width): 82

\* n key/value items out of P, one after the other
RECURSIVE WireItems(_, _)
WireItems(P, n) ==
  IF n = 0 THEN {<<>>}
  ELSE { w \o p[1] \o p[2] : w \in WireItems(P, n - 1), p \in P }

\* bodies that are one CBOR map, with the declared number of items
MapBodies(P) ==
  UNION { { encode_length(160, n) \o w : w \in WireItems(P, n) } : n \in 0..MaxLen }

\* bodies that are one CBOR item other than a map
NonMapBodies ==
  { <<24, 82>>, <<57, 1, 243>>, <<250, 65, 115, 51, 51>>, <<98, 104, 105>>,
    <<130, 1, 2>>, <<128>>, <<245>>, <<246>>, <<66, 1, 2>> }

\* bodies that are no CBOR item: empty or truncated
MalformedBodies ==
  { <<>>, <<162, 1, 2>>, <<161, 1>>, <<250, 65, 115>>, <<25, 1>>, <<98, 104>>, <<28>> }

FirstBytes == {1, 31, 0, 153}

Msgs ==
  { <<b>> \o body : b \in FirstBytes,
                    body \in MapBodies(WirePairs) \cup NonMapBodies \cup MalformedBodies }
  \cup {<<>>, THINGSET_SIMPLE_MESSAGE}

DomainMsgs ==
  { <<b>> \o body : b \in {31, 153},
                    body \in MapBodies(MappedWirePairs) \cup NonMapBodies
                             \cup MalformedBodies }
  \cup {<<>>, THINGSET_SIMPLE_MESSAGE}

FunctionMsgs == { <<b>> \o body : b \in 0..255, body \in {<<>>, <<160>>, <<24>>} }

(***************************************************************************)
(* The calls.                                                              *)
(***************************************************************************)
NotCalled == [called |-> FALSE, data |-> <<>>]

Init ==
  /\ op = "idle"
  /\ arg_msg = <<>>
  /\ arg_message = None
  /\ arg_mapping = <<>>
  /\ arg_precision = None
  /\ ret = Ok(None)
  /\ cbor_in = NotCalled

ParseFunction ==
  /\ op = "idle"
  /\ \E msg \in FunctionMsgs :
       /\ op' = "parse_function"
       /\ arg_msg' = msg
       /\ ret' = parse_thingset_msg_function(msg)
  /\ UNCHANGED <<arg_message, arg_mapping, arg_precision, cbor_in>>

Decode ==
  /\ op = "idle"
  /\ \E msg \in Msgs, floats_precision \in Precisions :
       /\ op' = "decode"
       /\ arg_msg' = msg
       /\ arg_precision' = floats_precision
       /\ ret' = decode_thingset_message(msg, floats_precision)
       /\ cbor_in' = DecodeSteps(msg, floats_precision).cbor_in
  /\ UNCHANGED <<arg_message, arg_mapping>>

DecodeWithDomain ==
  /\ op = "idle"
  /\ \E msg \in DomainMsgs, payload_key_mapping \in Mappings,
        floats_precision \in {None, IntV(MaxPrecision)} :
       /\ op' = "decode_with_domain"
       /\ arg_msg' = msg
       /\ arg_mapping' = payload_key_mapping
       /\ arg_precision' = floats_precision
       /\ ret' = decode_thingset_message_with_domain(msg, payload_key_mapping,
                                                     floats_precision)
       /\ cbor_in' = DecodeSteps(msg, floats_precision).cbor_in
  /\ UNCHANGED arg_message

Encode ==
  /\ op = "idle"
  /\ \E function \in Functions, payload \in RawPayloads :
       /\ op' = "encode"
       /\ arg_message' = Message(function, payload)
       /\ ret' = encode_thingset_message(Message(function, payload))
  /\ UNCHANGED <<arg_msg, arg_mapping, arg_precision, cbor_in>>

EncodeWithDomain ==
  /\ op = "idle"
  /\ \E function \in Functions, payload \in DomainPayloads,
        payload_key_mapping \in Mappings :
       /\ op' = "encode_with_domain"
       /\ arg_message' = Message(function, payload)
       /\ arg_mapping' = payload_key_mapping
       /\ ret' = encode_thingset_message_with_domain(Message(function, payload),
                                                     payload_key_mapping)
  /\ UNCHANGED <<arg_msg, arg_precision, cbor_in>>

\* the call returns; nothing of it is kept
Return ==
  /\ op # "idle"
  /\ op' = "idle"
  /\ arg_msg' = <<>>
  /\ arg_message' = None
  /\ arg_mapping' = <<>>
  /\ arg_precision' = None
  /\ ret' = Ok(None)
  /\ cbor_in' = NotCalled

Next ==
  \/ ParseFunction
  \/ Decode
  \/ DecodeWithDomain
  \/ Encode
  \/ EncodeWithDomain
  \/ Return

Spec == Init /\ [][Next]_vars


(***************************************************************************)
(* Vocabulary of the properties.                                           *)
(***************************************************************************)
KnownCodes == {1, 2, 3, 4, 5, 6, 7, 31}

Keys(d) == {d[i][1] : i \in 1..Len(d)}

\* dict equality: the same keys with the same values, in any order
DictEq(a, b) ==
  /\ Len(a) = Len(b)
  /\ \A i \in 1..Len(a) : DictHas(b, a[i][1]) /\ DictGet(b, a[i][1]) = a[i][2]

\* a float that float32 holds exactly: packing and unpacking gives it back
Float32Exact(x) ==
  /\ x.c # "nan"
  /\ struct_pack_f(x).ok
  /\ struct_unpack_f(struct_pack_f(x).val) = x

FloatsExact(payload) ==
  \A i \in 1..Len(payload) :
    IsFloat(payload[i][2]) => Float32Exact(payload[i][2].float)

\* the bytes of each value of a map of n items that starts at b, in order
RECURSIVE ValueSpans(_, _)
ValueSpans(b, n) ==
  IF n = 0 THEN <<>>
  ELSE LET k == cbor_decode(b)
           x == cbor_decode(k.rest)
       IN <<SubSeq(k.rest, 1, Len(k.rest) - Len(x.rest))>> \o ValueSpans(x.rest, n - 1)

RECURSIVE Concat(_)
Concat(q) == IF Len(q) = 0 THEN <<>> ELSE q[1][1] \o q[1][2] \o Concat(Tail(q))

\* messages as the reference firmware sends them: a known function byte and
\* a definite-length map of reference items with distinct keys
ReferenceBodies ==
  { <<160 + Len(q)>> \o Concat(q) :
      q \in { x \in UNION {[1..n -> ReferencePairs] : n \in 0..MaxLen} :
                \A i, j \in 1..Len(x) : i # j => x[i][1] # x[j][1] } }

ReferenceMsgs ==
  { <<b>> \o body : b \in KnownCodes, body \in ReferenceBodies }
  \cup {THINGSET_SIMPLE_MESSAGE}

Decoding == op \in {"decode", "decode_with_domain"}

\* the map the CBOR decoder finds in the message of the current call
SourceMap == cbor2_loads(cbor_msg(arg_msg))

Decodable ==
  /\ parse_thingset_msg_function(arg_msg).ok
  /\ SourceMap.ok
  /\ TypeOf(SourceMap.val) = "dict"

\* C1: every float value of a payload is encoded, whatever its magnitude, as
\* exactly five bytes: the tag 0xFA and the four bytes of its float32; the
\* encoding of a float never fails.
C1_Float32Forcing ==
  op = "encode" =>
    /\ ret.ok
    /\ LET payload == arg_message.payload
           n == Len(payload)
           spans == ValueSpans(Drop(ret.val, 2), n)
       IN \A i \in 1..n :
            IsFloat(payload[i][2]) => /\ Len(spans[i]) = 5
                                      /\ spans[i][1] = 250

\* C2: for a non-empty message the classifier returns the variant whose code
\* is the first byte when that byte is a known code, and otherwise raises
\* ParsingError naming the byte; it never returns a default variant.
C2_ClassificationExact ==
  (op = "parse_function" /\ Len(arg_msg) > 0) =>
    IF arg_msg[1] \in KnownCodes
    THEN ret.ok /\ ret.val \in Functions /\ ret.val.value = arg_msg[1]
    ELSE ~ret.ok /\ ret.exc = "ParsingError" /\ ret.arg[2] = arg_msg[1]

C2_Witness ==
  op = "parse_function" /\ Len(arg_msg) > 1 /\ arg_msg[1] = 153 /\ ~ret.ok

\* C3: a message whose floats are exact in float32 decodes, without a
\* precision, from its encoding to itself (same function, same keys, same
\* values); and a reference message decoded without a precision encodes
\* to the very same bytes.
C3_RoundTrip ==
  /\ (op = "encode" /\ FloatsExact(arg_message.payload)) =>
       /\ ret.ok
       /\ LET back == decode_thingset_message(ret.val, None)
          IN /\ back.ok
             /\ back.val.function = arg_message.function
             /\ DictEq(back.val.payload, arg_message.payload)
  /\ (op = "decode" /\ arg_precision = None /\ arg_msg \in ReferenceMsgs) =>
       /\ ret.ok
       /\ encode_thingset_message(ret.val) = Ok(arg_msg)

C3_Witness ==
  /\ op = "encode"
  /\ Len(arg_message.payload) = 2
  /\ FloatsExact(arg_message.payload)
  /\ arg_message.payload[2][2] = FloatV(F32_15_2)
  /\ arg_message.payload[1][2] = FloatV(FLT_MAX)
  /\ ret.ok

\* C4: the output of an encode is the code of the function, a definite-length
\* map header declaring as many items as the payload has, and then exactly
\* that many key/value items in the order of the payload, with nothing after.
C4_WireLayout ==
  op = "encode" =>
    /\ ret.ok
    /\ LET payload == arg_message.payload
           n == Len(payload)
           body == cbor_decode(Tail(ret.val))
       IN /\ ret.val[1] = arg_message.function.value
          /\ ret.val[2] = 160 + n
          /\ body.ok
          /\ body.rest = <<>>
          /\ TypeOf(body.val) = "dict"
          /\ Len(body.val.dict) = n
          /\ \A i \in 1..n : body.val.dict[i][1] = payload[i][1]

\* the domain keys a mapping gives a raw key to
Names(mapping) == {mapping[i][2] : i \in 1..Len(mapping)}

\* C5: when a key of the domain payload is no value of the mapping, the
\* domain encode raises an error that names such a key and returns no bytes.
C5_UnmappedKeyFails ==
  (op = "encode_with_domain"
     /\ Keys(arg_message.payload) \ Names(arg_mapping) # {}) =>
    /\ ~ret.ok
    /\ ret.exc = "KeyError"
    /\ ret.arg \in Keys(arg_message.payload) \ Names(arg_mapping)

C5_Witness ==
  /\ op = "encode_with_domain"
  /\ Len(arg_message.payload) = 2
  /\ arg_message.payload[1][1] \in Names(arg_mapping)
  /\ arg_message.payload[2][1] \notin Names(arg_mapping)
  /\ ~ret.ok


\* the entries m[k] -> r[k] for the keys k of both the mapping m and the
\* raw payload r
Translated(m, r) ==
  { <<m[i][2], DictGet(r, m[i][1])>> : i \in {j \in 1..Len(m) : DictHas(r, m[j][1])} }

Entries(d) == {d[i] : i \in 1..Len(d)}

Injective(m) == \A i, j \in 1..Len(m) : m[i][2] = m[j][2] => i = j

\* C6 as stated: for every mapping the domain decode of a decodable message
\* returns, without an error, exactly the entries m[k] -> r[k] of the keys k
\* present in both the mapping and the raw payload.
C6_AnyMapping ==
  (op = "decode_with_domain" /\ Decodable) =>
    /\ ret.ok
    /\ Entries(ret.val.payload) =
         Translated(arg_mapping,
                    parse_thingset_msg_payload(arg_msg, arg_precision).val)

\* C6, amended: the same for every mapping that gives distinct raw keys
\* distinct domain keys.
C6_InjectiveMapping ==
  (op = "decode_with_domain" /\ Decodable /\ Injective(arg_mapping)) =>
    /\ ret.ok
    /\ Len(ret.val.payload) = Cardinality(Entries(ret.val.payload))
    /\ Entries(ret.val.payload) =
         Translated(arg_mapping,
                    parse_thingset_msg_payload(arg_msg, arg_precision).val)

\* a key of the message is not mapped and a key of the mapping is not in
\* the message, one entry is translated
C6_Witness ==
  /\ op = "decode_with_domain"
  /\ Decodable
  /\ Injective(arg_mapping)
  /\ Len(arg_mapping) = 2
  /\ Len(SourceMap.val.dict) = 2
  /\ ~DictHas(arg_mapping, SourceMap.val.dict[1][1])
  /\ ~DictHas(SourceMap.val.dict, arg_mapping[1][1])
  /\ ret.ok
  /\ Len(ret.val.payload) = 1

\* C7: with a known function byte, a body that is a CBOR value other than a
\* map makes the decode raise ParsingError reporting the type of the value;
\* an empty map is decoded to an empty payload.
C7_NonMapRejected ==
  (Decoding /\ parse_thingset_msg_function(arg_msg).ok /\ SourceMap.ok) =>
    /\ TypeOf(SourceMap.val) # "dict" =>
         /\ ~ret.ok
         /\ ret.exc = "ParsingError"
         /\ ret.arg[2] = TypeOf(SourceMap.val)
    /\ SourceMap.val = DictV(<<>>) => ret.ok /\ ret.val.payload = <<>>

C7_Witness ==
  /\ op = "decode"
  /\ arg_msg = <<31, 250, 65, 115, 51, 51>>
  /\ ~ret.ok
  /\ ret.arg[2] = "float"

\* C8: the decoded payload has the keys of the source map, unchanged; a
\* value is the rounding of the source value to the precision when a
\* precision is given (0 included) and the source value is a float, and the
\* source value itself otherwise.
C8_OnlyFloatsRounded ==
  (op = "decode" /\ Decodable) =>
    /\ ret.ok
    /\ LET source == SourceMap.val.dict
           payload == ret.val.payload
       IN /\ Len(payload) = Len(source)
          /\ \A i \in 1..Len(source) :
               /\ payload[i][1] = source[i][1]
               /\ payload[i][2] =
                    IF arg_precision # None /\ TypeOf(source[i][2]) = "float"
                    THEN FloatV(round(source[i][2].float, arg_precision.int))
                    ELSE source[i][2]

\* precision 0 rounds 1.5 to 2.0 and leaves the integer beside it alone
C8_Witness ==
  /\ op = "decode"
  /\ arg_precision = IntV(0)
  /\ arg_msg = <<31, 162, 1, 250, 63, 192, 0, 0, 25, 1, 44, 57, 1, 243>>
  /\ ret.ok
  /\ ret.val.payload = << <<IntV(1), FloatV(Fin(0, 2, 0))>>, <<IntV(300), IntV(-500)>> >>

\* the raw keys of a mapping are distinct, as the keys of a dict are
Bijective(m) == Injective(m)

\* the raw key a bijective mapping gives a domain key
InverseKey(m, name) == m[CHOOSE i \in 1..Len(m) : m[i][2] = name][1]

\* C9: with a bijective mapping that covers the keys of the domain payload,
\* the domain encode gives what the raw encode gives for the payload with
\* each key replaced by its raw key, in the same order.
C9_DomainEncodeIsRawEncode ==
  (op = "encode_with_domain" /\ Bijective(arg_mapping)
     /\ Keys(arg_message.payload) \subseteq Names(arg_mapping)) =>
    ret = encode_thingset_message(
            Message(arg_message.function,
                    [i \in 1..Len(arg_message.payload) |->
                       <<InverseKey(arg_mapping, arg_message.payload[i][1]),
                         arg_message.payload[i][2]>>]))

\* two entries, given in the payload in the opposite order of the mapping
C9_Witness ==
  /\ op = "encode_with_domain"
  /\ Len(arg_message.payload) = 2
  /\ Len(arg_mapping) = 2
  /\ arg_message.payload[1][1] = arg_mapping[2][2]
  /\ arg_message.payload[2][1] = arg_mapping[1][2]
  /\ arg_message.payload[1][2] # arg_message.payload[2][2]
  /\ ret.ok

\* C10: a decode of a message with an unknown first byte raises the
\* unknown-function ParsingError whatever follows the byte, and hands
\* nothing to the CBOR decoder; the CBOR decoder only ever gets the bytes
\* after the first.
C10_ClassifyBeforeParse ==
  (Decoding /\ Len(arg_msg) > 0) =>
    /\ arg_msg[1] \notin KnownCodes =>
         /\ ret = Raise("ParsingError", <<"function not implemented", arg_msg[1]>>)
         /\ ~cbor_in.called
    /\ cbor_in.called => cbor_in.data = Tail(arg_msg)

\* unknown first byte before a truncated map
C10_Witness ==
  /\ op = "decode_with_domain"
  /\ arg_msg = <<153, 161, 1>>
  /\ ~ret.ok
  /\ ~cbor_in.called

====
